---- MODULE Spec2Model ----
(***************************************************************************)
(* State-machine model of the PlannerTab component                         *)
(* (src/components/PlannerTab.tsx): the React state of the component, the  *)
(* FileReader loads in flight, and one action per handler.                 *)
(*                                                                         *)
(* Numbers.  Cells of the uploaded matrices are integers, so avgCalls and  *)
(* avgAht are multiples of 1/2; the model stores them in HALVES (the       *)
(* field avgCalls holds 2 * the JavaScript value).  Agent counts, budgets  *)
(* and capacities are integers.  JavaScript numbers are IEEE-754 doubles:  *)
(* where a rounding of the quotient or product can move a ceil or a floor  *)
(* (handleGenerateScenarios), the rounding is computed exactly, by modular *)
(* arithmetic on the remainder of the 53-bit quotient.                     *)
(***************************************************************************)
EXTENDS Integers, Sequences, FiniteSets, TLC

VARIABLES forecast, isProcessing, error, viewMode, maxConcurrentInput,
          scenariosGenerated, readers, written

vars == <<forecast, isProcessing, error, viewMode, maxConcurrentInput,
          scenariosGenerated, readers, written>>

(***************************************************************************)
(* Bounds of the model.                                                    *)
(***************************************************************************)
\* FileReader loads that may be in flight at once.
MaxReaders == 2

(***************************************************************************)
(* Program constants.                                                      *)
(***************************************************************************)
HOURS == <<9, 10, 11, 12, 13, 14, 15, 16, 17, 18, 19, 20, 21, 22, 23, 0, 1, 2>>
DAYS == <<"Sunday", "Monday", "Tuesday", "Wednesday", "Thursday", "Friday", "Saturday">>
\* UTILIZATION_FACTOR = 0.75 = 3/4 and AVAILABILITY_FACTOR = 0.875 = 7/8,
\* both exact doubles, kept as fractions.
UTILIZATION_NUM == 3
UTILIZATION_DEN == 4
AVAILABILITY_NUM == 7
AVAILABILITY_DEN == 8
SECONDS_PER_HOUR == 3600
DEFAULT_AHT == 300
DEFAULT_MAX_CONCURRENT == 20
\* Fraction bits of a double's significand.
MantissaBits == 52

\* null / undefined, and a present value (useState<T | null>, optional fields
\* of a looked-up interval).
Null == <<>>
Some(x) == <<x>>

(***************************************************************************)
(* Integer helpers.                                                        *)
(***************************************************************************)
Max2(a, b) == IF a >= b THEN a ELSE b

\* Math.ceil and Math.floor of the exact quotient n / d, d > 0.
CeilDiv(n, d) == -((-n) \div d)
FloorDiv(n, d) == n \div d

RECURSIVE Pow2(_)
Pow2(n) == IF n <= 0 THEN 1 ELSE 2 * Pow2(n - 1)

\* 2^n mod b.
RECURSIVE PowMod2(_, _)
PowMod2(n, b) == IF n = 0 THEN 1 % b ELSE (2 * PowMod2(n - 1, b)) % b

\* floor(log2(a / b)) for a, b > 0: the k with 2^k <= a/b < 2^(k+1).
RECURSIVE Log2Up(_, _, _)
Log2Up(a, b, k) == IF b * Pow2(k + 1) <= a THEN Log2Up(a, b, k + 1) ELSE k
RECURSIVE Log2Down(_, _, _)
Log2Down(a, b, t) == IF a * Pow2(t) >= b THEN -t ELSE Log2Down(a, b, t + 1)
Log2Floor(a, b) == IF a >= b THEN Log2Up(a, b, 0) ELSE Log2Down(a, b, 1)

(***************************************************************************)
(* IEEE-754 double arithmetic on small integers.                           *)
(*                                                                         *)
(* q = fl(a / b) is m / 2^e with m the 53-bit integer nearest to           *)
(* a * 2^e / b, e = MantissaBits - floor(log2(a/b)).  DivErr(a, b) is      *)
(* b * m - a * 2^e: the signed rounding error of the quotient in units of  *)
(* 1 / (b * 2^e), found from (a * 2^e) mod b.  A tie cannot occur for      *)
(* a, b < 2^31.                                                            *)
(***************************************************************************)
DivErr(a, b) ==
  LET k == Log2Floor(a, b)
      r == ((a % b) * PowMod2(MantissaBits - k, b)) % b
  IN  IF r = 0 THEN 0 ELSE IF 2 * r < b THEN -r ELSE b - r

\* For c, a, b > 0 with b dividing c * a, so that the exact product
\* c * (a / b) is the integer N: whether fl(c * fl(a / b)) is below (-1),
\* at (0) or above (1) N.  The exact product c * q is N + c * DivErr / (b * 2^e);
\* it rounds away from N when the error passes half the gap to the next
\* double (the gap below a power of two is half the gap above it; a tie
\* rounds to N, whose significand is even).
MulDivDir(c, a, b) ==
  LET N == (c * a) \div b
      d == DivErr(a, b)
      j == Log2Floor(N, 1)
      k == Log2Floor(a, b)
      t == b * Pow2(j - k)
  IN  IF d = 0 THEN 0
      ELSE IF d > 0 THEN (IF 2 * c * d > t THEN 1 ELSE 0)
      ELSE IF N = Pow2(j) THEN (IF 4 * c * (-d) > t THEN -1 ELSE 0)
      ELSE (IF 2 * c * (-d) > t THEN -1 ELSE 0)

\* Math.ceil(c * (a / b)) in doubles, for integers c, a >= 0 and b > 0.
\* When the exact product is no integer it is at least 1/b away from one,
\* far more than the rounding error, and the ceil is the exact one.
CeilMulDiv(c, a, b) ==
  IF c = 0 \/ a = 0 THEN 0
  ELSE IF (c * a) % b # 0 THEN CeilDiv(c * a, b)
  ELSE (c * a) \div b + (IF MulDivDir(c, a, b) > 0 THEN 1 ELSE 0)

\* Math.floor(c * (a / b)) in doubles, for integers c, a >= 0 and b > 0.
FloorMulDiv(c, a, b) ==
  IF c = 0 \/ a = 0 THEN 0
  ELSE IF (c * a) % b # 0 THEN FloorDiv(c * a, b)
  ELSE (c * a) \div b - (IF MulDivDir(c, a, b) < 0 THEN 1 ELSE 0)

(***************************************************************************)
(* Spreadsheet cells and JavaScript's Number(cell).                        *)
(* A cell read by sheet_to_json(sheet, {header: 1}) is a number, a string  *)
(* or undefined (an empty cell, or an index past the end of the row).      *)
(***************************************************************************)
Num(n) == [kind |-> "number", n |-> n]
\* The string whose text is the decimal numeral of n, e.g. "100".
NumStr(n) == [kind |-> "string", numeric |-> TRUE, n |-> n]
\* A string that is no numeral, e.g. "n/a".
Text == [kind |-> "string", numeric |-> FALSE, n |-> 0]
Undefined == [kind |-> "undefined"]

\* row[c] with JavaScript's 0-based index c.
CellAt(row, c) == IF c + 1 <= Len(row) THEN row[c + 1] ELSE Undefined

\* A JavaScript number: an integer or NaN.
JsNum(n) == [nan |-> FALSE, n |-> n]
NaN == [nan |-> TRUE, n |-> 0]
JsAdd(x, y) == IF x.nan \/ y.nan THEN NaN ELSE JsNum(x.n + y.n)

\* Number(cell).
ToNumber(cell) ==
  IF cell.kind = "number" THEN JsNum(cell.n)
  ELSE IF cell.kind = "string" /\ cell.numeric THEN JsNum(cell.n)
  ELSE NaN

\* (Number(x) + Number(y)) / 2 || 0, in halves: NaN and 0 are falsy.
AverageOrZero(x, y) ==
  LET sum == JsAdd(ToNumber(x), ToNumber(y))
  IN  IF sum.nan THEN 0 ELSE sum.n

\* r[0] === h: strict equality with the number h.
HourCellIs(cell, h) == cell.kind = "number" /\ cell.n = h

\* data.find((r) => r[0] === h): the first matching row, or undefined.
FindRow(data, h) ==
  LET hits == {k \in 1..Len(data) : HourCellIs(CellAt(data[k], 0), h)}
  IN  IF hits = {} THEN Null
      ELSE Some(data[CHOOSE k \in hits : \A m \in hits : k <= m])

(***************************************************************************)
(* StaffingCalculator.  calls and aht are in halves.  The exact value is   *)
(*   (calls/2 * aht/2) / 3600 / UTILIZATION_FACTOR / AVAILABILITY_FACTOR.  *)
(* The three double divisions are exact whenever that value is an integer  *)
(* (it is then a multiple of 21/32 and of 7/8, both dyadic), and a value   *)
(* that is no integer is at least 1/9450 away from one, so Math.ceil of    *)
(* the double is the ceil of the exact quotient.                           *)
(***************************************************************************)
\* Variant: no early return and no clamp to the floor of 2.
calculateRequiredAgentsNoFloor(calls, aht) ==
  CeilDiv(calls * aht * UTILIZATION_DEN * AVAILABILITY_DEN,
          4 * SECONDS_PER_HOUR * UTILIZATION_NUM * AVAILABILITY_NUM)

\* Variant: the division by AVAILABILITY_FACTOR is left out.
calculateRequiredAgentsNoAvailability(calls, aht) ==
  IF calls <= 0 \/ aht <= 0 THEN 2
  ELSE Max2(CeilDiv(calls * aht * UTILIZATION_DEN,
                    4 * SECONDS_PER_HOUR * UTILIZATION_NUM), 2)

calculateRequiredAgents(calls, aht) ==
  IF calls <= 0 \/ aht <= 0 THEN 2
  ELSE Max2(CeilDiv(calls * aht * UTILIZATION_DEN * AVAILABILITY_DEN,
                    4 * SECONDS_PER_HOUR * UTILIZATION_NUM * AVAILABILITY_NUM), 2)

(***************************************************************************)
(* ForecastIngestor: the body of reader.onload.                            *)
(***************************************************************************)
\* workbook.Sheets[name]; a name that is undefined finds nothing.
SheetNamed(workbook, name) ==
  IF name # Null /\ name[1] \in DOMAIN workbook.Sheets
  THEN Some(workbook.Sheets[name[1]]) ELSE Null

\* workbook.SheetNames[k], 0-based.
SheetNameAt(workbook, k) ==
  IF k + 1 <= Len(workbook.SheetNames) THEN Some(workbook.SheetNames[k + 1]) ELSE Null

\* a || b on sheets (a sheet object is truthy).
OrElse(a, b) == IF a # Null THEN a ELSE b

callsSheetOf(workbook) ==
  OrElse(SheetNamed(workbook, Some("Calls")), SheetNamed(workbook, SheetNameAt(workbook, 0)))
ahtSheetOf(workbook) ==
  OrElse(SheetNamed(workbook, Some("AHT")), SheetNamed(workbook, SheetNameAt(workbook, 1)))

\* The (dow, hour) pairs in the order the nested loops visit them.
LoopOrder ==
  [k \in 1..(Len(DAYS) * Len(HOURS)) |->
     [dow |-> (k - 1) \div Len(HOURS), h |-> HOURS[((k - 1) % Len(HOURS)) + 1]]]

\* The interval pushed for (dow, h) from the two matching rows.
MakeInterval(row, ahtRow, dow, h) ==
  LET avgCalls == AverageOrZero(CellAt(row, dow + 1), CellAt(row, dow + 8))
      avgAht == AverageOrZero(CellAt(ahtRow, dow + 1), CellAt(ahtRow, dow + 8))
  IN  [hour |-> h, dayOfWeek |-> dow,
       requiredAgents |-> calculateRequiredAgents(avgCalls, avgAht),
       avgCalls |-> avgCalls, avgAht |-> avgAht]

BuildIntervals(callsData, ahtData) ==
  LET both(p) == FindRow(callsData, p.h) # Null /\ FindRow(ahtData, p.h) # Null
      kept == SelectSeq(LoopOrder, both)
  IN  [k \in 1..Len(kept) |->
         MakeInterval(FindRow(callsData, kept[k].h)[1], FindRow(ahtData, kept[k].h)[1],
                      kept[k].dow, kept[k].h)]

\* Variant: no throw on a missing sheet, which is read as an empty matrix.
ParseWorkbookNoTabCheck(workbook) ==
  LET callsSheet == callsSheetOf(workbook)
      ahtSheet == ahtSheetOf(workbook)
  IN  [ok |-> TRUE, message |-> "",
       intervals |-> BuildIntervals(IF callsSheet = Null THEN <<>> ELSE callsSheet[1],
                                    IF ahtSheet = Null THEN <<>> ELSE ahtSheet[1])]

\* The try block: the intervals, or the thrown error's message.
ParseWorkbook(workbook) ==
  LET callsSheet == callsSheetOf(workbook)
      ahtSheet == ahtSheetOf(workbook)
  IN  IF callsSheet = Null \/ ahtSheet = Null
      THEN [ok |-> FALSE, message |-> "Tabs missing.", intervals |-> <<>>]
      ELSE [ok |-> TRUE, message |-> "",
            intervals |-> BuildIntervals(callsSheet[1], ahtSheet[1])]

(***************************************************************************)
(* ScenarioPlanner and CapacityEstimator: the callback of forecast.map in  *)
(* handleGenerateScenarios.  avgAht is in halves, so                       *)
(*   (3600 * UTILIZATION_FACTOR) / (avgAht || 300)                         *)
(* is the double quotient of 2 * 3600 * 3 by 4 * (avgAht || 2 * 300).      *)
(***************************************************************************)
WithFields(i, scheduled, capacity) ==
  [f \in DOMAIN i \cup {"scheduledAgents", "capacity"} |->
     IF f = "scheduledAgents" THEN scheduled
     ELSE IF f = "capacity" THEN capacity ELSE i[f]]

\* Variant: the rescaled count also overwrites requiredAgents.
scenarioIntervalResize(i, budget, peakRequired) ==
  LET scheduled == CeilMulDiv(i.requiredAgents, budget, peakRequired)
  IN  WithFields([i EXCEPT !.requiredAgents = scheduled], scheduled, 0)

\* Variant: capacity is set only where avgAht > 0.
scenarioIntervalNoCapacity(i, budget, peakRequired) ==
  LET scheduled == CeilMulDiv(i.requiredAgents, budget, peakRequired)
  IN  IF i.avgAht > 0
      THEN WithFields(i, scheduled, 0)
      ELSE [f \in DOMAIN i \cup {"scheduledAgents"} |->
              IF f = "scheduledAgents" THEN scheduled ELSE i[f]]

scenarioInterval(i, budget, peakRequired) ==
  LET scheduled == CeilMulDiv(i.requiredAgents, budget, peakRequired)
      ahtOrDefault == IF i.avgAht # 0 THEN i.avgAht ELSE 2 * DEFAULT_AHT
      capacity == IF i.avgAht > 0
                  THEN FloorMulDiv(scheduled, 2 * SECONDS_PER_HOUR * UTILIZATION_NUM,
                                   UTILIZATION_DEN * ahtOrDefault)
                  ELSE 0
  IN  WithFields(i, scheduled, capacity)

\* Math.max(...forecast.map((i) => i.requiredAgents)) of a non-empty forecast.
PeakRequired(f) ==
  CHOOSE p \in {f[k].requiredAgents : k \in 1..Len(f)} :
    \A k \in 1..Len(f) : f[k].requiredAgents <= p

(***************************************************************************)
(* AggregationReporter.                                                    *)
(***************************************************************************)
\* The metric of interval i that view `mode` shows; `x || 0` for the
\* optional fields.
MetricOrZero(mode, i) ==
  IF mode = "baseline" THEN i.requiredAgents
  ELSE IF mode = "scheduled"
       THEN (IF "scheduledAgents" \in DOMAIN i THEN i.scheduledAgents ELSE 0)
       ELSE (IF "capacity" \in DOMAIN i THEN i.capacity ELSE 0)

RECURSIVE SumSeq(_)
SumSeq(s) == IF s = <<>> THEN 0 ELSE Head(s) + SumSeq(Tail(s))

\* forecast.filter((i) => i.dayOfWeek === dow).reduce(sum of the metric, 0)
DayTotal(f, mode, dow) ==
  LET ofDay(i) == i.dayOfWeek = dow
      picked == SelectSeq(f, ofDay)
  IN  SumSeq([k \in 1..Len(picked) |-> MetricOrZero(mode, picked[k])])

\* The dayTotals memo, over the current forecast and viewMode.
dayTotals ==
  IF forecast = Null THEN [d \in 1..Len(DAYS) |-> 0]
  ELSE [d \in 1..Len(DAYS) |-> DayTotal(forecast[1], viewMode, d - 1)]

\* h.toString().padStart(2, "0") + ":00"
Digits == <<"0", "1", "2", "3", "4", "5", "6", "7", "8", "9">>
RECURSIVE NatToString(_)
NatToString(n) ==
  IF n < 10 THEN Digits[n + 1] ELSE NatToString(n \div 10) \o Digits[(n % 10) + 1]
IntervalLabel(h) == (IF h < 10 THEN "0" ELSE "") \o NatToString(h) \o ":00"

\* Variant: the hour is not compared.
FindIntervalAnyHour(f, dow, h) ==
  LET hits == {k \in 1..Len(f) : f[k].dayOfWeek = dow}
  IN  IF hits = {} THEN Null ELSE Some(f[CHOOSE k \in hits : \A m \in hits : k <= m])

\* forecast.find((i) => i.dayOfWeek === dow && i.hour === h)
FindInterval(f, dow, h) ==
  LET hits == {k \in 1..Len(f) : f[k].dayOfWeek = dow /\ f[k].hour = h}
  IN  IF hits = {} THEN Null ELSE Some(f[CHOOSE k \in hits : \A m \in hits : k <= m])

\* interval?.requiredAgents and the like: undefined when there is no such
\* interval or the field is not set.
MetricOf(mode, interval) ==
  LET field == IF mode = "baseline" THEN "requiredAgents"
               ELSE IF mode = "scheduled" THEN "scheduledAgents" ELSE "capacity"
  IN  IF interval = Null THEN Null
      ELSE IF field \in DOMAIN interval[1] THEN Some(interval[1][field]) ELSE Null

\* One sheet of the export: a row per hour, keyed "Interval" and by day name;
\* the capacity sheet ends with the DAY TOTAL row.
Columns == {"Interval"} \cup {DAYS[d] : d \in 1..Len(DAYS)}
DayIndex(day) == CHOOSE d \in 1..Len(DAYS) : DAYS[d] = day

generateSheet(f, mode) ==
  LET data == [k \in 1..Len(HOURS) |->
                 [c \in Columns |->
                    IF c = "Interval" THEN IntervalLabel(HOURS[k])
                    ELSE MetricOf(mode, FindInterval(f, DayIndex(c) - 1, HOURS[k]))]]
      totalRow == [c \in Columns |->
                     IF c = "Interval" THEN "DAY TOTAL"
                     ELSE Some(DayTotal(f, "capacity", DayIndex(c) - 1))]
  IN  IF mode = "capacity" THEN Append(data, totalRow) ELSE data

(***************************************************************************)
(* Uploaded workbooks: [SheetNames, Sheets], each sheet the matrix that    *)
(* sheet_to_json(sheet, {header: 1}) returns for it.                       *)
(***************************************************************************)
NumRow(s) == [k \in 1..Len(s) |-> Num(s[k])]
Book(names, sheets) == [SheetNames |-> names, Sheets |-> sheets]

\* The two single-row matrices of the end-to-end example.
ExampleCalls == << NumRow(<<9, 10, 12, 14, 16, 18, 20, 22, 10, 12, 14, 16, 18, 20, 22>>) >>
ExampleAht ==
  << NumRow(<<9, 300, 300, 300, 300, 300, 300, 300, 300, 300, 300, 300, 300, 300, 300>>) >>
WbExample == Book(<<"Calls", "AHT">>, [n \in {"Calls", "AHT"} |->
                IF n = "Calls" THEN ExampleCalls ELSE ExampleAht])

\* Matrices with a header row, a repeated hour, an hour outside HOURS, an
\* hour present in one sheet only, an empty row, a string hour label, text,
\* numeric-string, negative, zero and missing cells.
MixedCalls ==
  << <<Text, Text, Text>>,
     <<Num(10), Num(100), Num(100), Text, Num(-50), Num(0), NumStr(100), Num(100),
                Num(100), Text, Num(40), Num(10), Num(0), Num(100)>>,
     NumRow(<<10, 1, 1, 1, 1, 1, 1, 1, 1, 1, 1, 1, 1, 1, 1>>),
     NumRow(<<5, 30, 30, 30, 30, 30, 30, 30, 30, 30, 30, 30, 30, 30, 30>>),
     <<>>,
     NumRow(<<2, 30, 30, 30, 30, 30, 30, 30, 30, 30, 30, 30, 30, 30, 30>>),
     <<NumStr(11), Num(30), Num(30)>>,
     NumRow(<<23, 40, 40, 40, 40, 40, 40, 40, 40, 40, 40, 40, 40, 40, 40>>) >>
MixedAht ==
  << NumRow(<<23, 240, 300, 301, 0, -300, 7, 300, 260, 300, 300, 0, 100, 7, 300>>),
     NumRow(<<10, 300, 300, 300, 300, 300, 580, 0, 300, 300, 300, 300, 300, 580, 0>>),
     <<Num(23), Text>>,
     NumRow(<<11, 300, 300, 300, 300, 300, 300, 300, 300, 300, 300, 300, 300, 300, 300>>) >>
WbMixed == Book(<<"Sheet1", "Sheet2">>, [n \in {"Sheet1", "Sheet2"} |->
              IF n = "Sheet1" THEN MixedCalls ELSE MixedAht])

\* Workbooks lacking a sheet.
WbCallsOnly == Book(<<"Calls">>, [n \in {"Calls"} |-> ExampleCalls])
WbEmpty == Book(<<>>, [n \in {} |-> <<>>])
\* One sheet, named "AHT": it is the AHT sheet by name and the calls sheet by position.
WbAhtOnly == Book(<<"AHT">>, [n \in {"AHT"} |-> ExampleAht])
\* Named sheets in the other order: the names decide, not the positions.
WbSwapped == Book(<<"AHT", "Calls">>, [n \in {"Calls", "AHT"} |->
                IF n = "Calls" THEN ExampleCalls ELSE ExampleAht])

\* Both sheets present, no row labelled with an hour: the forecast is empty.
WbNoHours == Book(<<"Calls", "AHT">>, [n \in {"Calls", "AHT"} |-> << <<Text, Text, Text>> >>])

Files == {WbExample, WbMixed, WbCallsOnly}

\* Single-row workbooks for hour 9 built from week blocks.
CallsWeeks ==
  { NumRow(<<100, 100, 100, 100, 100, 100, 100>>),
    NumRow(<<10, 12, 14, 16, 18, 20, 22>>),
    <<Text, Num(0), Num(-4), NumStr(30), Num(200), Num(63), Num(1)>>,
    NumRow(<<100, 50>>) }
AhtWeeks ==
  { NumRow(<<300, 300, 300, 300, 300, 300, 300>>),
    NumRow(<<580, 75, 0, 301, 7, 300, 13>>),
    <<Num(300), Text, Num(-300), Num(600)>> }
WeekBook(c1, c2, a1, a2) ==
  Book(<<"Calls", "AHT">>, [n \in {"Calls", "AHT"} |->
         IF n = "Calls" THEN << <<Num(9)>> \o c1 \o c2 >> ELSE << <<Num(9)>> \o a1 \o a2 >>])
SessionFiles ==
  Files \cup {WbEmpty, WbAhtOnly, WbSwapped, WbNoHours}
        \cup {WeekBook(c1, c2, a1, a2) : c1 \in CallsWeeks, c2 \in CallsWeeks,
                                         a1 \in AhtWeeks, a2 \in AhtWeeks}

\* Values typed into the budget field, and the three views.
Budgets == {0, 7, DEFAULT_MAX_CONCURRENT}
ViewModes == {"baseline", "scheduled", "capacity"}

(***************************************************************************)
(* The component: state after construction and one action per handler.     *)
(* readers holds the workbooks of the FileReaders whose load has not yet   *)
(* fired, in the order they were started; written is the workbook last     *)
(* handed to XLSX.writeFile.                                               *)
(***************************************************************************)
Init ==
  /\ forecast = Null
  /\ isProcessing = FALSE
  /\ error = Null
  /\ viewMode = "baseline"
  /\ maxConcurrentInput = DEFAULT_MAX_CONCURRENT
  /\ scenariosGenerated = FALSE
  /\ readers = <<>>
  /\ written = Null

\* handleFileUpload up to reader.readAsArrayBuffer(file); file is
\* e.target.files?.[0].
handleFileUpload(file) ==
  IF file = Null
  THEN UNCHANGED vars
  ELSE /\ isProcessing' = TRUE
       /\ error' = Null
       /\ scenariosGenerated' = FALSE
       /\ viewMode' = "baseline"
       /\ readers' = Append(readers, file[1])
       /\ UNCHANGED <<forecast, maxConcurrentInput, written>>

RemoveAt(s, k) == [m \in 1..(Len(s) - 1) |-> IF m < k THEN s[m] ELSE s[m + 1]]

\* reader.onload of the k-th reader in flight: try / catch / finally.
onload(k) ==
  LET result == ParseWorkbook(readers[k])
  IN  /\ IF result.ok
         THEN forecast' = Some(result.intervals) /\ UNCHANGED error
         ELSE error' = Some(result.message) /\ UNCHANGED forecast
      /\ isProcessing' = FALSE
      /\ readers' = RemoveAt(readers, k)
      /\ UNCHANGED <<viewMode, maxConcurrentInput, scenariosGenerated, written>>

\* Math.max() of no arguments is -Infinity, which is truthy: an empty
\* forecast is mapped to an empty forecast and the flags are still set.
handleGenerateScenarios ==
  IF forecast = Null
  THEN UNCHANGED vars
  ELSE LET f == forecast[1]
       IN  IF f # <<>> /\ PeakRequired(f) = 0
           THEN UNCHANGED vars
           ELSE /\ forecast' = Some([k \in 1..Len(f) |->
                                  scenarioInterval(f[k], maxConcurrentInput, PeakRequired(f))])
                /\ scenariosGenerated' = TRUE
                /\ viewMode' = "scheduled"
                /\ UNCHANGED <<isProcessing, error, maxConcurrentInput, readers, written>>

\* exportToExcel; the date in the file name is left out.
exportToExcel ==
  IF forecast = Null
  THEN UNCHANGED vars
  ELSE /\ written' = Some(Book(<<"Baseline Plan", "Capped Plan", "Call Capacity">>,
                               [n \in {"Baseline Plan", "Capped Plan", "Call Capacity"} |->
                                  generateSheet(forecast[1],
                                     IF n = "Baseline Plan" THEN "baseline"
                                     ELSE IF n = "Capped Plan" THEN "scheduled"
                                     ELSE "capacity")]))
       /\ UNCHANGED <<forecast, isProcessing, error, viewMode, maxConcurrentInput,
                      scenariosGenerated, readers>>

setMaxConcurrentInput(b) ==
  /\ maxConcurrentInput' = b
  /\ UNCHANGED <<forecast, isProcessing, error, viewMode, scenariosGenerated, readers, written>>

setViewMode(m) ==
  /\ viewMode' = m
  /\ UNCHANGED <<forecast, isProcessing, error, maxConcurrentInput, scenariosGenerated,
                 readers, written>>

Upload == \E file \in {Null} \cup {Some(w) : w \in Files} :
            Len(readers) < MaxReaders /\ handleFileUpload(file)
Load == \E k \in 1..Len(readers) : onload(k)
Generate == handleGenerateScenarios
Export == exportToExcel
SetBudget == \E b \in Budgets : setMaxConcurrentInput(b)
SetView == \E m \in ViewModes : setViewMode(m)

\* Any interleaving of uploads, loads, scenario generations and the two
\* setters.  exportToExcel reads the state and changes only `written`; it is
\* part of the session specification below.
Next == Upload \/ Load \/ Generate \/ SetBudget \/ SetView

Spec == Init /\ [][Next]_vars

\* One session: a single workbook is uploaded, from the larger family, then
\* scenarios are generated and exported under any budget and view.
FirstUpload == \E w \in SessionFiles :
                 /\ forecast = Null /\ error = Null /\ readers = <<>>
                 /\ handleFileUpload(Some(w))

NextSession == FirstUpload \/ Load \/ Generate \/ Export \/ SetBudget \/ SetView

SpecSession == Init /\ [][NextSession]_vars

\* Uploads one at a time: a file is chosen only when no load is pending.
UploadSerial == \E w \in Files : readers = <<>> /\ handleFileUpload(Some(w))

NextSerial == UploadSerial \/ Load \/ Generate \/ SetBudget \/ SetView

SpecSerial == Init /\ [][NextSerial]_vars

(***************************************************************************)
(* Properties.                                                             *)
(***************************************************************************)
Intervals == IF forecast = Null THEN <<>> ELSE forecast[1]
HasScenario(i) == "scheduledAgents" \in DOMAIN i /\ "capacity" \in DOMAIN i
HasNoScenario(i) == ~("scheduledAgents" \in DOMAIN i) /\ ~("capacity" \in DOMAIN i)

\* C1: in every reachable state every interval of the forecast has
\* requiredAgents >= 2, and exactly 2 when avgCalls <= 0 or avgAht <= 0.
C1_StaffingFloor ==
  \A k \in 1..Len(Intervals) :
    /\ Intervals[k].requiredAgents >= 2
    /\ (Intervals[k].avgCalls <= 0 \/ Intervals[k].avgAht <= 0)
         => Intervals[k].requiredAgents = 2

\* A forecast, after a scenario was generated over it, with an interval of no
\* calls, one of calls but no handle time, one of negative calls and one
\* above the floor.
C1_Witness ==
  /\ scenariosGenerated
  /\ \E k \in 1..Len(Intervals) : Intervals[k].avgCalls = 0 /\ Intervals[k].requiredAgents = 2
  /\ \E k \in 1..Len(Intervals) :
       Intervals[k].avgCalls > 0 /\ Intervals[k].avgAht <= 0 /\ Intervals[k].requiredAgents = 2
  /\ \E k \in 1..Len(Intervals) : Intervals[k].avgCalls < 0 /\ Intervals[k].requiredAgents = 2
  /\ \E k \in 1..Len(Intervals) : Intervals[k].requiredAgents > 2

\* C2: for calls > 0 and aht > 0 the required agents are
\* max(2, ceil(calls * aht / 3600 / 0.75 / 0.875)): with calls and aht in
\* halves the quotient is calls * aht / 9450 (4 * 3600 * 0.75 * 0.875 = 9450),
\* and r is its ceil, clamped to 2, exactly when r >= 2, 9450 * r >= calls * aht
\* and, above 2, 9450 * (r - 1) < calls * aht.  calls = 100, aht = 300 gives 13.
C2_RequiredAgentsFormula ==
  \A k \in 1..Len(Intervals) :
    LET i == Intervals[k]
    IN  (i.avgCalls > 0 /\ i.avgAht > 0) =>
          /\ i.requiredAgents >= 2
          /\ 9450 * i.requiredAgents >= i.avgCalls * i.avgAht
          /\ (i.requiredAgents > 2 => 9450 * (i.requiredAgents - 1) < i.avgCalls * i.avgAht)
          /\ ((i.avgCalls = 2 * 100 /\ i.avgAht = 2 * 300) => i.requiredAgents = 13)

\* A forecast with the example (calls 100, aht 300), a positive load below the
\* floor and a load above the example's.
C2_Witness ==
  /\ \E k \in 1..Len(Intervals) :
       Intervals[k].avgCalls = 200 /\ Intervals[k].avgAht = 600 /\ Intervals[k].requiredAgents = 13
  /\ \E k \in 1..Len(Intervals) :
       /\ Intervals[k].avgCalls > 0 /\ Intervals[k].avgAht > 0
       /\ Intervals[k].avgCalls * Intervals[k].avgAht <= 9450
       /\ Intervals[k].requiredAgents = 2
  /\ \E k \in 1..Len(Intervals) : Intervals[k].requiredAgents > 13

\* Number(cell), with a non-numeric or missing cell counting as 0.
CellOrZero(cell) == IF ToNumber(cell).nan THEN 0 ELSE ToNumber(cell).n

\* C3: every interval a load emits has avgCalls (avgAht) equal to the mean of
\* the week-1 cell (column day + 1) and the week-2 cell (column day + 8) of
\* its hour's row, a non-numeric or missing cell counting as 0 (in halves:
\* the sum of the two).
C3_MeanOfCells ==
  [][\A r \in 1..Len(readers) :
       (onload(r) /\ ParseWorkbook(readers[r]).ok) =>
         \A k \in 1..Len(forecast'[1]) :
           LET i == forecast'[1][k]
               row == FindRow(callsSheetOf(readers[r])[1], i.hour)[1]
               ahtRow == FindRow(ahtSheetOf(readers[r])[1], i.hour)[1]
           IN  /\ i.avgCalls = CellOrZero(CellAt(row, i.dayOfWeek + 1))
                               + CellOrZero(CellAt(row, i.dayOfWeek + 8))
               /\ i.avgAht = CellOrZero(CellAt(ahtRow, i.dayOfWeek + 1))
                             + CellOrZero(CellAt(ahtRow, i.dayOfWeek + 8))]_vars

\* C4: scenario generation with budget B on a non-empty forecast gives every
\* interval at the peak requiredAgents scheduledAgents = ceil(B) (B is an
\* integer here).
C4_PeakAtBudget ==
  [][(forecast # Null /\ Intervals # <<>> /\ handleGenerateScenarios) =>
       \A k \in 1..Len(forecast'[1]) :
         forecast'[1][k].requiredAgents = PeakRequired(forecast[1])
           => forecast'[1][k].scheduledAgents = maxConcurrentInput]_vars

\* C5: in every reachable state each interval has scheduledAgents and
\* capacity both absent or both present; a load yields intervals with both
\* absent, and a scenario generation sets both on every interval at once.
C5_BothOrNeither ==
  /\ [](\A k \in 1..Len(Intervals) : HasScenario(Intervals[k]) \/ HasNoScenario(Intervals[k]))
  /\ [][(Len(readers') < Len(readers) /\ forecast' # forecast) =>
          \A k \in 1..Len(forecast'[1]) : HasNoScenario(forecast'[1][k])]_vars
  /\ [][(forecast # Null /\ scenariosGenerated' /\ readers' = readers /\ forecast' # forecast) =>
          \A k \in 1..Len(forecast'[1]) : HasScenario(forecast'[1][k])]_vars

\* A generated scenario over a forecast that has an interval of zero handle
\* time and one of positive handle time.
C5_Witness ==
  /\ scenariosGenerated
  /\ Intervals # <<>>
  /\ \A k \in 1..Len(Intervals) : HasScenario(Intervals[k])
  /\ \E k \in 1..Len(Intervals) : Intervals[k].avgAht <= 0
  /\ \E k \in 1..Len(Intervals) : Intervals[k].avgAht > 0 /\ Intervals[k].capacity > 0

\* C6: at most one file parse is in flight at any time.
C6_OneParseInFlight == Len(readers) <= 1

\* Sum of one day's column of an exported sheet, an absent cell counting 0.
ColumnSum(sheet, day) ==
  SumSeq([k \in 1..Len(sheet) |-> IF sheet[k][day] = Null THEN 0 ELSE sheet[k][day][1]])

\* C7: the day totals re-derived from the exported baseline table equal the
\* baseline dayTotals computed from the forecast.
C7_ExportRoundTrip ==
  (forecast # Null /\ viewMode = "baseline") =>
     \A d \in 1..Len(DAYS) :
        ColumnSum(generateSheet(forecast[1], "baseline"), DAYS[d]) = dayTotals[d]

\* The baseline sheet of the current forecast has been written; it has
\* absent and present cells, and the totals differ between two days.
C7_Witness ==
  /\ forecast # Null /\ viewMode = "baseline" /\ written # Null
  /\ written[1].Sheets["Baseline Plan"] = generateSheet(forecast[1], "baseline")
  /\ \E k \in 1..Len(HOURS) : written[1].Sheets["Baseline Plan"][k]["Sunday"] = Null
  /\ \E k \in 1..Len(HOURS) : written[1].Sheets["Baseline Plan"][k]["Sunday"] # Null
  /\ dayTotals[1] # dayTotals[2]
  /\ dayTotals[1] > 2

\* The calls sheet or the AHT sheet is missing both by name and by position.
TabsMissing(workbook) ==
  \/ ("Calls" \notin DOMAIN workbook.Sheets /\ Len(workbook.SheetNames) < 1)
  \/ ("AHT" \notin DOMAIN workbook.Sheets /\ Len(workbook.SheetNames) < 2)

\* C8: when the load of a workbook with a missing sheet fires, error becomes
\* "Tabs missing.", the forecast stays what it was and isProcessing is false.
C8_TabsMissing ==
  [][\A r \in 1..Len(readers) :
       (readers' = RemoveAt(readers, r) /\ TabsMissing(readers[r])) =>
          /\ error' = Some("Tabs missing.")
          /\ forecast' = forecast
          /\ isProcessing' = FALSE]_vars

\* The error is shown over the forecast of an earlier upload.
C8_Witness ==
  /\ error = Some("Tabs missing.")
  /\ forecast # Null /\ Intervals # <<>>
  /\ ~isProcessing
  /\ readers = <<>>

\* C9: scenario generation leaves the number and order of the intervals and
\* each interval's hour, dayOfWeek, avgCalls, avgAht and requiredAgents
\* unchanged, and changes nothing at all when there is no forecast.
C9_ScenarioFrame ==
  [][handleGenerateScenarios =>
       IF forecast = Null THEN UNCHANGED vars
       ELSE /\ forecast' # Null
            /\ Len(forecast'[1]) = Len(forecast[1])
            /\ \A k \in 1..Len(forecast[1]) :
                 \A f \in {"hour", "dayOfWeek", "avgCalls", "avgAht", "requiredAgents"} :
                    forecast'[1][k][f] = forecast[1][k][f]]_vars

\* A scenario that rescaled some interval away from its requirement.
C9_Witness ==
  /\ scenariosGenerated
  /\ \E k \in 1..Len(Intervals) :
       HasScenario(Intervals[k]) /\ Intervals[k].scheduledAgents # Intervals[k].requiredAgents
  /\ \E k \in 1..Len(Intervals) :
       HasScenario(Intervals[k]) /\ Intervals[k].requiredAgents > 2

\* C10: whenever scenariosGenerated is true, every interval of the current
\* forecast has scheduledAgents and capacity set.
C10_FlagImpliesScheduled ==
  scenariosGenerated => \A k \in 1..Len(Intervals) : HasScenario(Intervals[k])

====
